---- MODULE Spec2Model ----
(***************************************************************************)
(* Model of the cinder-volume snap's configuration and lifecycle manager:  *)
(* configuration validation (configuration.py), context providers and the  *)
(* aggregate backend collection (context.py), template descriptors         *)
(* (template.py), the service registry (services.py) and the install and   *)
(* configure hooks with their render pass and service reconciliation       *)
(* (cinder_volume.py).                                                     *)
(*                                                                         *)
(* Values of configuration fields are strings, Python's None is the string *)
(* "None".  A Python dict with string keys is a TLA+ function with a       *)
(* string domain (a record); an ordered dict whose order matters (the      *)
(* per-family backend maps, the name-to-context map) is a sequence of      *)
(* entries with pairwise distinct keys.                                    *)
(***************************************************************************)
EXTENDS Integers, Sequences, FiniteSets, TLC

VARIABLES
    config,       \* the snap's configuration store, as snap.config.get_options gives it
    dirs,         \* directories on disk under snap.paths.common: path -> mode
    files,        \* files on disk under snap.paths.common: path -> [content, mode]
    supervisor,   \* names of the services snap.services.list() knows
    sources,      \* template sources on disk: pairs <<directory, file name>>
    running,      \* the supervisor's services: name -> "stopped", "current" (running on
                  \* the configuration files as they are) or "stale" (running, a file
                  \* it reads was written since it was last started)
    hook,         \* the hook that is running: "none", "install", "configure"
    pc,           \* position inside the running hook
    self,         \* the CinderVolume object of the running hook (its caches and locals)
    effects,      \* what the running hook has done so far, in order: <<operation, target>>
    outcome,      \* how the last hook ended: "none", "ok", "logged", "raised", "failed"
    last,         \* <<configuration>> of the latest render pass if it ran to its end, else << >>
    cycles,       \* number of hooks begun
    op,           \* pure-function checks: the function applied ("" before)
    arg,          \* pure-function checks: its input
    ret           \* pure-function checks: its result

vars == <<config, dirs, files, supervisor, sources, running, hook, pc, self, effects,
          outcome, last, cycles, op, arg, ret>>

None == "None"

----------------------------------------------------------------------------
(* Generic helpers for dicts and sequences.                                *)

\* dict.update: g's keys override f's
Update(f, g) ==
    [k \in (DOMAIN f) \cup (DOMAIN g) |-> IF k \in DOMAIN g THEN g[k] ELSE f[k]]

\* {k: v for k, v in f.items() if k in S}
Restrict(f, S) == [k \in (DOMAIN f) \cap S |-> f[k]]

Range(s) == {s[i] : i \in DOMAIN s}

RECURSIVE Concat(_)
Concat(ss) == IF ss = <<>> THEN <<>> ELSE Head(ss) \o Concat(Tail(ss))

\* Position of the entry with key k in an ordered dict d, 0 when absent
RECURSIVE IndexOf(_, _, _)
IndexOf(d, k, i) ==
    IF i > Len(d) THEN 0
    ELSE IF d[i].key = k THEN i
    ELSE IndexOf(d, k, i + 1)

\* d[k] = v on an ordered dict: a present key keeps its position
DictSet(d, k, v) ==
    LET i == IndexOf(d, k, 1)
        e == [key |-> k, value |-> v]
    IN  IF i = 0 THEN Append(d, e) ELSE [d EXCEPT ![i] = e]

Keys(d) == [i \in DOMAIN d |-> d[i].key]

Values(d) == [i \in DOMAIN d |-> d[i].value]

----------------------------------------------------------------------------
(* configuration.py: the backend families' settings after validation, as   *)
(* model_dump() returns them (field names underscored).                    *)

\* CephConfiguration: every field of the class; unset optional fields are None
CephConfiguration(vbn, pool, mon, cache) ==
    [ image_volume_cache_enabled       |-> cache,
      image_volume_cache_max_size_gb   |-> None,
      image_volume_cache_max_count     |-> None,
      volume_dd_blocksize              |-> "4096",
      volume_backend_name              |-> vbn,
      rbd_exclusive_cinder_pool        |-> "True",
      report_discard_supported         |-> "True",
      rbd_flatten_volume_from_snapshot |-> "False",
      auth                             |-> "cephx",
      mon_hosts                        |-> mon,
      rbd_pool                         |-> pool,
      rbd_user                         |-> "cinder",
      rbd_secret_uuid                  |-> "uuid",
      rbd_key                          |-> "key" ]

\* HitachiConfiguration: the inherited fields, the mandatory connection
\* parameters, the protocol, and one representative of each remaining kind
\* of option (optional-unset: hitachi_auth_user; defaulted: hitachi_copy_speed)
HitachiConfiguration(vbn, pools, ip, proto) ==
    [ image_volume_cache_enabled     |-> None,
      image_volume_cache_max_size_gb |-> None,
      image_volume_cache_max_count   |-> None,
      volume_dd_blocksize            |-> "4096",
      volume_backend_name            |-> vbn,
      san_ip                         |-> ip,
      san_login                      |-> "login",
      san_password                   |-> "password",
      hitachi_storage_id             |-> "sid",
      hitachi_pools                  |-> pools,
      protocol                       |-> proto,
      hitachi_copy_speed             |-> "3",
      hitachi_auth_user              |-> None ]

\* PureConfiguration: inherited fields, required fields, protocol, one
\* optional-unset option (pure_host_personality), one defaulted option
PureConfiguration(vbn, proto) ==
    [ image_volume_cache_enabled     |-> None,
      image_volume_cache_max_size_gb |-> None,
      image_volume_cache_max_count   |-> None,
      volume_dd_blocksize            |-> "4096",
      volume_backend_name            |-> vbn,
      san_ip                         |-> "ip",
      pure_api_token                 |-> "token",
      protocol                       |-> proto,
      pure_host_personality          |-> None,
      pure_eradicate_on_delete       |-> "False" ]

\* DellSCConfiguration: inherited fields, required fields, protocol, one
\* optional-unset option (secondary_san_ip), one defaulted option
DellSCConfiguration(vbn, proto) ==
    [ image_volume_cache_enabled     |-> None,
      image_volume_cache_max_size_gb |-> None,
      image_volume_cache_max_count   |-> None,
      volume_dd_blocksize            |-> "4096",
      volume_backend_name            |-> vbn,
      san_ip                         |-> "ip",
      san_login                      |-> "login",
      san_password                   |-> "password",
      dell_sc_ssn                    |-> "64702",
      protocol                       |-> proto,
      secondary_san_ip               |-> None,
      dell_sc_api_port               |-> "3033" ]

\* The families in the order validate_unique_backend_names walks them
BackendTypes == <<"ceph", "hitachi", "pure", "dellsc">>

\* Field(pattern=...) of the three protocol fields
ProtocolPattern(backend_type) ==
    CASE backend_type = "hitachi" -> {"FC", "iSCSI"}
      [] backend_type = "pure"    -> {"iscsi", "fc", "nvme"}
      [] backend_type = "dellsc"  -> {"iscsi", "fc"}
      [] OTHER                    -> {}

\* The backends of one family, in the order of the map's items()
Backends(cfg, backend_type) ==
    CASE backend_type = "ceph"    -> cfg.ceph
      [] backend_type = "hitachi" -> cfg.hitachi
      [] backend_type = "pure"    -> cfg.pure
      [] backend_type = "dellsc"  -> cfg.dellsc

\* Per-field validation: the required sections database, rabbitmq and cinder
\* are present (core is "unset" when they are not), and every protocol field
\* matches its pattern
FieldsValid(cfg) ==
    /\ cfg.core # "unset"
    /\ \A t \in Range(BackendTypes) \ {"ceph"} :
         \A i \in DOMAIN Backends(cfg, t) :
            Backends(cfg, t)[i].value.protocol \in ProtocolPattern(t)

\* The (backend_type, backend_key, backend) triples in the order the two
\* nested loops of validate_unique_backend_names visit them
Tagged(cfg, backend_type) ==
    [i \in DOMAIN Backends(cfg, backend_type) |->
        [backend_type |-> backend_type,
         backend_key  |-> Backends(cfg, backend_type)[i].key,
         backend      |-> Backends(cfg, backend_type)[i].value]]

AllBackends(cfg) ==
    Concat([i \in DOMAIN BackendTypes |-> Tagged(cfg, BackendTypes[i])])

Valid == [ok |-> TRUE, kind |-> "", value |-> "", backend_type |-> "", backend_key |-> ""]

\* raise ValueError(f"Duplicate backend name '{value}' found in ...") and
\* raise ValueError(f"Duplicate Ceph pool '{value}' found in ...")
Duplicate(kind, value, b) ==
    [ok |-> FALSE, kind |-> kind, value |-> value,
     backend_type |-> b.backend_type, backend_key |-> b.backend_key]

\* A pool rule that covers the Hitachi family's hitachi_pools as well
PoolCheckedAllFamilies(b) ==
    \/ (b.backend_type = "ceph" /\ "rbd_pool" \in DOMAIN b.backend)
    \/ (b.backend_type = "hitachi" /\ "hitachi_pools" \in DOMAIN b.backend)

\* backend_type == "ceph" and hasattr(backend, 'rbd_pool'): the backends
\* whose pool is checked
PoolChecked(b) ==
    b.backend_type = "ceph" /\ "rbd_pool" \in DOMAIN b.backend

PoolOf(b) ==
    IF b.backend_type = "ceph" THEN b.backend.rbd_pool ELSE b.backend.hitachi_pools

\* The body of the loops: the name check, then the pool check
RECURSIVE UniqueScan(_, _, _, _)
UniqueScan(bs, i, backend_names, ceph_pools) ==
    IF i > Len(bs) THEN Valid
    ELSE LET b == bs[i] IN
         IF b.backend.volume_backend_name \in backend_names
         THEN Duplicate("name", b.backend.volume_backend_name, b)
         ELSE IF PoolChecked(b) /\ PoolOf(b) \in ceph_pools
         THEN Duplicate("pool", PoolOf(b), b)
         ELSE UniqueScan(bs, i + 1,
                         backend_names \cup {b.backend.volume_backend_name},
                         IF PoolChecked(b) THEN ceph_pools \cup {PoolOf(b)}
                                           ELSE ceph_pools)

\* A validator whose set of seen names starts afresh with every family
RECURSIVE PerFamilyScan(_, _)
PerFamilyScan(cfg, t) ==
    IF t > Len(BackendTypes) THEN Valid
    ELSE LET r == UniqueScan(Tagged(cfg, BackendTypes[t]), 1, {}, {})
         IN  IF r.ok THEN PerFamilyScan(cfg, t + 1) ELSE r

ValidateUniquePerFamily(cfg) == PerFamilyScan(cfg, 1)

\* Configuration.validate_unique_backend_names
ValidateUniqueBackendNames(cfg) == UniqueScan(AllBackends(cfg), 1, {}, {})

\* model_validate: the per-field validation, then the model validator
ModelValidate(cfg) ==
    IF ~FieldsValid(cfg)
    THEN [ok |-> FALSE, kind |-> "field", value |-> "", backend_type |-> "", backend_key |-> ""]
    ELSE ValidateUniqueBackendNames(cfg)

----------------------------------------------------------------------------
(* template.py: template and directory descriptors.                        *)

\* File modes, written as Python writes them
Mode640 == "0o640"      \* Template.__init__'s default mode
Mode600 == "0o600"      \* the keyring's mode
Mode750 == "0o750"      \* Directory.__init__'s default mode
ModeUmask == "umask"    \* the mode the process umask gives a new file or directory

\* CommonTemplate(src, dest, mode, template_name); location is "common"
CommonTemplate(src, dest, mode, template_name) ==
    [filename |-> src, dest |-> dest, mode |-> mode,
     template_name |-> template_name, location |-> "common"]

\* CommonDirectory(path); mode defaults to 0o750
CommonDirectory(path) == [path |-> path, mode |-> Mode750, location |-> "common"]

\* Path.__truediv__ on relative paths
Join(a, b) == a \o "/" \o b

\* Template.template: template_name or filename
TemplateName(tpl) ==
    IF tpl.template_name # None /\ tpl.template_name # ""
    THEN tpl.template_name ELSE tpl.filename

\* Template.rel_path: dest / template()
RelPath(tpl) == Join(tpl.dest, TemplateName(tpl))

\* str.removesuffix(".j2") on the file names the descriptors of this
\* repository carry
RemoveSuffixJ2(name) ==
    CASE name = "ceph.conf.j2"           -> "ceph.conf"
      [] name = "ceph.client.keyring.j2" -> "ceph.client.keyring"
      [] name = "backend.conf.j2"        -> "backend.conf"
      [] OTHER                           -> name

\* dest_file of _process_template: dest / filename.removesuffix(".j2")
DestFile(tpl) == Join(tpl.dest, RemoveSuffixJ2(tpl.filename))

----------------------------------------------------------------------------
(* context.py: backend context providers.                                  *)

ETC_CEPH == "etc/ceph"
ETC_CINDER == "etc/cinder"
CINDER_CONF_D == "etc/cinder/cinder.conf.d"

\* BaseBackendContext.__init__ as the four subclasses finish it
CephBackendContext(backend_name, backend_config) ==
    [variant |-> "ceph", backend_name |-> backend_name, namespace |-> "ceph_ctx",
     supports_cluster |-> TRUE, backend_config |-> backend_config]

HitachiBackendContext(backend_name, backend_config) ==
    [variant |-> "hitachi", backend_name |-> backend_name, namespace |-> "backend",
     supports_cluster |-> FALSE, backend_config |-> backend_config]

PureBackendContext(backend_name, backend_config) ==
    [variant |-> "pure", backend_name |-> backend_name, namespace |-> "backend",
     supports_cluster |-> TRUE, backend_config |-> backend_config]

DellSCBackendContext(backend_name, backend_config) ==
    [variant |-> "dellsc", backend_name |-> backend_name, namespace |-> "backend",
     supports_cluster |-> FALSE, backend_config |-> backend_config]

\* CephBackendContext._hidden_keys
HiddenKeysWithoutMonHosts == {"rbd_key", "keyring", "auth", "backend_name"}

HiddenKeys == {"rbd_key", "keyring", "mon_hosts", "auth", "backend_name"}

\* CephBackendContext.keyring and ceph_conf
Keyring(ctx) == "ceph.client." \o ctx.backend_name \o ".keyring"

CephConf(ctx) == ctx.backend_name \o ".conf"

\* dict.get(key, default)
Get(d, k, default) == IF k \in DOMAIN d THEN d[k] ELSE default

\* str.lower on the protocol tokens
Lower(s) ==
    CASE s = "FC"    -> "fc"
      [] s = "iSCSI" -> "iscsi"
      [] s = "ISCSI" -> "iscsi"
      [] s = "NVMe"  -> "nvme"
      [] OTHER       -> s

\* CephBackendContext.context
CephContext(ctx) ==
    LET context == Update(Update([volume_driver |-> "cinder.volume.drivers.rbd.RBDDriver"],
                                 ctx.backend_config),
                          [rbd_ceph_conf |-> "{{ snap_paths.common }}/etc/ceph/" \o CephConf(ctx),
                           keyring       |-> Keyring(ctx)])
    IN  Restrict(context, {k \in DOMAIN context : context[k] # None})

\* HitachiBackendContext.context
HitachiContext(ctx) ==
    LET proto == Lower(Get(ctx.backend_config, "protocol", "FC"))
        driver_cls == IF proto = "fc"
                      THEN "cinder.volume.drivers.hitachi.hbsd_fc.HBSDFCDriver"
                      ELSE "cinder.volume.drivers.hitachi.hbsd_iscsi.HBSDISCSIDriver"
    IN  Update([backend_name |-> ctx.backend_name, driver_class |-> driver_cls],
               ctx.backend_config)

\* PureBackendContext.context
PureContext(ctx) ==
    LET protocol == Lower(Get(ctx.backend_config, "protocol", "fc"))
        driver_classes == [iscsi |-> "cinder.volume.drivers.pure.PureISCSIDriver",
                           fc    |-> "cinder.volume.drivers.pure.PureFCDriver",
                           nvme  |-> "cinder.volume.drivers.pure.PureNVMEDriver"]
        driver_class == Get(driver_classes, protocol, driver_classes["fc"])
    IN  Update([backend_name |-> ctx.backend_name, driver_class |-> driver_class],
               ctx.backend_config)

\* DellSCBackendContext.context
DellSCContext(ctx) ==
    LET protocol == Lower(Get(ctx.backend_config, "protocol", "fc"))
        driver_classes ==
            [iscsi |-> "cinder.volume.drivers.dell_emc.sc.storagecenter_iscsi.SCISCSIDriver",
             fc    |-> "cinder.volume.drivers.dell_emc.sc.storagecenter_fc.SCFCDriver"]
        driver_class == Get(driver_classes, protocol, driver_classes["fc"])
    IN  Update([backend_name |-> ctx.backend_name, driver_class |-> driver_class],
               ctx.backend_config)

\* backend_context.context(): the full context, by variant
Context(ctx) ==
    CASE ctx.variant = "ceph"    -> CephContext(ctx)
      [] ctx.variant = "hitachi" -> HitachiContext(ctx)
      [] ctx.variant = "pure"    -> PureContext(ctx)
      [] ctx.variant = "dellsc"  -> DellSCContext(ctx)

EmptyDict == [k \in {} |-> None]

\* A cinder_context that hides every hidden key but mon_hosts
CephCinderContextLeaky(ctx) ==
    Restrict(CephContext(ctx), (DOMAIN CephContext(ctx)) \ HiddenKeysWithoutMonHosts)

\* CephBackendContext.cinder_context: the full context without the hidden keys
CephCinderContext(ctx) ==
    Restrict(CephContext(ctx), (DOMAIN CephContext(ctx)) \ HiddenKeys)

\* backend_context.cinder_context(): the summary context, by variant
CinderContext(ctx) ==
    IF ctx.variant = "ceph" THEN CephCinderContext(ctx) ELSE EmptyDict

\* backend_context.template_files()
TemplateFiles(ctx) ==
    IF ctx.variant = "ceph"
    THEN << CommonTemplate(CephConf(ctx), ETC_CEPH, Mode640, "ceph.conf.j2"),
            CommonTemplate(Keyring(ctx), ETC_CEPH, Mode600, "ceph.client.keyring.j2") >>
    ELSE << CommonTemplate(ctx.backend_name \o ".conf", CINDER_CONF_D, Mode640,
                           "backend.conf.j2") >>

\* backend_context.directories()
Directories(ctx) ==
    IF ctx.variant = "ceph" THEN << CommonDirectory(ETC_CEPH) >> ELSE << >>

----------------------------------------------------------------------------
(* context.py: the aggregate backend collection.                           *)

\* A raised exception or a returned object
Raise(message) == [raised |-> message, object |-> << >>]

Return(object) == [raised |-> "", object |-> << object >>]

\* A constructor that does not look for enabled names without a context
CinderBackendContextsUnchecked(enabled_backends, contexts) ==
    IF enabled_backends = << >>
    THEN Raise("At least one backend must be enabled")
    ELSE Return([enabled_backends |-> enabled_backends, contexts |-> contexts])

\* CinderBackendContexts.__init__
CinderBackendContexts(enabled_backends, contexts) ==
    IF enabled_backends = << >>
    THEN Raise("At least one backend must be enabled")
    ELSE IF Range(enabled_backends) \ Range(Keys(contexts)) # {}
    THEN Raise("Context missing configuration for backends")
    ELSE Return([enabled_backends |-> enabled_backends, contexts |-> contexts])

\* ",".join(names)
RECURSIVE JoinComma(_)
JoinComma(names) ==
    IF names = << >> THEN ""
    ELSE IF Len(names) = 1 THEN names[1]
    ELSE names[1] \o "," \o JoinComma(Tail(names))

\* {config.backend_name: config.cinder_context() for config in contexts.values()}
RECURSIVE LastWithName(_, _, _)
LastWithName(ctxs, name, i) ==
    IF ctxs[i].backend_name = name THEN ctxs[i] ELSE LastWithName(ctxs, name, i - 1)

SummaryContexts(ctxs) ==
    [name \in {ctxs[i].backend_name : i \in DOMAIN ctxs} |->
        CinderContext(LastWithName(ctxs, name, Len(ctxs)))]

\* CinderBackendContexts.context
CollectionContext(collection) ==
    LET ctxs == Values(collection.contexts)
    IN  [enabled_backends |-> JoinComma(collection.enabled_backends),
         cluster_ok       |-> \A i \in DOMAIN ctxs : ctxs[i].supports_cluster,
         contexts         |-> SummaryContexts(ctxs)]

----------------------------------------------------------------------------
(* cinder_volume.py: configuration loading and the backend registry.       *)

\* A get_config that hands the options over without validating them
GetConfigUnvalidated(cfg) == Return(cfg)

\* CinderVolume.get_config: model_validate, a ValidationError re-raised as
\* CinderError("Invalid configuration")
GetConfig(cfg) ==
    IF ModelValidate(cfg).ok THEN Return(cfg) ELSE Raise("Invalid configuration")

\* One of the two loops of backend_contexts: backend_ctxs[name] = Ctx(name, be_cfg)
RECURSIVE AddContexts(_, _, _, _)
AddContexts(backend_ctxs, backends, variant, i) ==
    IF i > Len(backends) THEN backend_ctxs
    ELSE AddContexts(
            DictSet(backend_ctxs, backends[i].key,
                    IF variant = "ceph"
                    THEN CephBackendContext(backends[i].key, backends[i].value)
                    ELSE HitachiBackendContext(backends[i].key, backends[i].value)),
            backends, variant, i + 1)

\* The dict the two loops of backend_contexts fill: Ceph back-ends, then
\* Hitachi back-ends
BackendCtxs(cfg) ==
    AddContexts(AddContexts(<< >>, cfg.ceph, "ceph", 1), cfg.hitachi, "hitachi", 1)

\* GenericCinderVolume.backend_contexts, on a cold cache
BackendContexts(cfg) ==
    IF GetConfig(cfg).raised # ""
    THEN Raise("Invalid configuration")
    ELSE CinderBackendContexts(Keys(BackendCtxs(cfg)), BackendCtxs(cfg))

----------------------------------------------------------------------------
(* Input domains.                                                          *)

MaxBackends == 3    \* backends configured at once, over all families
MaxEnabled == 2     \* length of an enabled-backends list given to the constructor

\* Map keys in the order the configuration store returns them (sorted)
BackendKeys == << "a", "b" >>

BackendNames == {"fast-pool", "slow-pool", "bulk-pool"}

Pools == {"volumes", "images"}

\* The maps over the keys BackendKeys[i..] with values in a set, as ordered dicts
RECURSIVE MapsFrom(_, _)
MapsFrom(i, values) ==
    IF i > Len(BackendKeys) THEN { << >> }
    ELSE LET rest == MapsFrom(i + 1, values)
         IN  rest \cup { << [key |-> BackendKeys[i], value |-> v] >> \o r :
                            v \in values, r \in rest }

CephValues ==
    { CephConfiguration(n, p, "mon1", c) : n \in BackendNames, p \in Pools, c \in {None, "True"} }

HitachiValues == { HitachiConfiguration(n, p, "ip1", "FC") : n \in BackendNames, p \in Pools }

PureValues == { PureConfiguration(n, "fc") : n \in BackendNames }

DellSCValues == { DellSCConfiguration(n, "fc") : n \in BackendNames }

Configuration(core, ceph, hitachi, pure, dellsc) ==
    [core |-> core, ceph |-> ceph, hitachi |-> hitachi, pure |-> pure, dellsc |-> dellsc]

NoConfiguration == Configuration("unset", << >>, << >>, << >>, << >>)

\* The state of the hooks' variables while a pure function is exercised
HooksIdle ==
    /\ config = NoConfiguration
    /\ dirs = EmptyDict
    /\ files = EmptyDict
    /\ supervisor = {}
    /\ sources = {}
    /\ running = EmptyDict
    /\ hook = "none"
    /\ pc = "idle"
    /\ self = EmptyDict
    /\ effects = << >>
    /\ outcome = "none"
    /\ last = << >>
    /\ cycles = 0

hookVars == <<config, dirs, files, supervisor, sources, running, hook, pc, self, effects,
              outcome, last, cycles>>

----------------------------------------------------------------------------
(* SpecConfig: validation and the backend registry on every configuration  *)
(* of the input domain.                                                    *)

InitConfig ==
    /\ HooksIdle
    /\ op = ""
    /\ ret = << >>
    /\ \E core \in {"unset", "default"} :
       \E ceph \in MapsFrom(1, CephValues), hitachi \in MapsFrom(1, HitachiValues) :
          /\ Len(ceph) + Len(hitachi) <= MaxBackends
          /\ \E pure \in MapsFrom(1, PureValues), dellsc \in MapsFrom(1, DellSCValues) :
                /\ Len(ceph) + Len(hitachi) + Len(pure) + Len(dellsc) <= MaxBackends
                /\ arg = Configuration(core, ceph, hitachi, pure, dellsc)

\* Configuration.model_validate(arg)
Validate ==
    /\ op = ""
    /\ op' = "model_validate"
    /\ ret' = ModelValidate(arg)
    /\ UNCHANGED <<arg, hookVars>>

\* jinja2.Template(value).render(**context) on the values a backend context
\* holds: only rbd_ceph_conf carries an expression
SnapCommon == "/var/snap/cinder-volume/common"

JinjaRender(value) ==
    IF \E i \in DOMAIN BackendKeys :
          value = "{{ snap_paths.common }}/etc/ceph/" \o BackendKeys[i] \o ".conf"
    THEN LET i == CHOOSE i \in DOMAIN BackendKeys :
                    value = "{{ snap_paths.common }}/etc/ceph/" \o BackendKeys[i] \o ".conf"
         IN  SnapCommon \o "/etc/ceph/" \o BackendKeys[i] \o ".conf"
    ELSE value

\* _render_specific_backend_configs on backend_contexts.context()
RenderSpecificBackendConfigs(collection_context) ==
    [collection_context EXCEPT
        !.contexts = [name \in DOMAIN collection_context.contexts |->
                        [k \in DOMAIN collection_context.contexts[name] |->
                            JinjaRender(collection_context.contexts[name][k])]]]

\* The value template() stores under the cinder_backends namespace
CinderBackendsNamespace(collection) ==
    RenderSpecificBackendConfigs(CollectionContext(collection))

\* backend_contexts(snap) and the cinder_backends namespace built from it
BuildBackendContexts ==
    /\ op = ""
    /\ op' = "backend_contexts"
    /\ ret' = LET r == BackendContexts(arg)
              IN  [raised |-> r.raised, object |-> r.object,
                   namespace |-> IF r.raised = "" THEN CinderBackendsNamespace(r.object[1])
                                 ELSE EmptyDict]
    /\ UNCHANGED <<arg, hookVars>>

NextConfig == Validate \/ BuildBackendContexts

SpecConfig == InitConfig /\ [][NextConfig]_vars

----------------------------------------------------------------------------
(* SpecCollection: the aggregate collection's constructor on every list of *)
(* enabled names and every name-to-context map of the input domain.        *)

CollectionNames == {"a", "b", "c"}

RECURSIVE SeqsUpTo(_, _)
SeqsUpTo(S, n) ==
    IF n = 0 THEN { << >> }
    ELSE SeqsUpTo(S, n - 1) \cup
         { Append(s, x) : s \in { t \in SeqsUpTo(S, n - 1) : Len(t) = n - 1 }, x \in S }

\* A name-to-context map over a set of names, as an ordered dict
RECURSIVE ContextMap(_)
ContextMap(names) ==
    IF names = {} THEN << >>
    ELSE LET n == CHOOSE n \in names : TRUE
         IN  << [key |-> n,
                 value |-> HitachiBackendContext(n, HitachiConfiguration(n, "volumes", "ip1", "FC"))] >>
             \o ContextMap(names \ {n})

InitCollection ==
    /\ HooksIdle
    /\ op = ""
    /\ ret = << >>
    /\ \E enabled \in SeqsUpTo(CollectionNames, MaxEnabled), names \in SUBSET CollectionNames :
          arg = [enabled_backends |-> enabled, contexts |-> ContextMap(names)]

\* CinderBackendContexts(enabled_backends=..., contexts=...)
Construct ==
    /\ op = ""
    /\ op' = "CinderBackendContexts"
    /\ ret' = CinderBackendContexts(arg.enabled_backends, arg.contexts)
    /\ UNCHANGED <<arg, hookVars>>

NextCollection == Construct

SpecCollection == InitCollection /\ [][NextCollection]_vars

----------------------------------------------------------------------------
(* SpecAlias: the spelling of the keys of the raw input, on                *)
(* CinderConfiguration.  The raw input is a dict from keys to values.      *)

\* pydantic.alias_generators.to_snake on the field names of the model, which
\* are in snake case already
ToSnake(value) == value

\* str.replace("_", "-") on the field names of CinderConfiguration
ReplaceUnderscores(value) ==
    CASE value = "project_id"                 -> "project-id"
      [] value = "user_id"                    -> "user-id"
      [] value = "image_volume_cache_enabled" -> "image-volume-cache-enabled"
      [] value = "default_volume_type"        -> "default-volume-type"
      [] OTHER                                -> value

\* to_kebab
ToKebab(value) == ReplaceUnderscores(ToSnake(value))

\* The fields of CinderConfiguration the input domain exercises: the two
\* required ones, two with defaults, and cluster, whose two spellings are
\* the same word
CinderConfigurationFields ==
    << [name |-> "project_id", required |-> TRUE, default |-> None],
       [name |-> "user_id", required |-> TRUE, default |-> None],
       [name |-> "image_volume_cache_enabled", required |-> FALSE, default |-> "False"],
       [name |-> "default_volume_type", required |-> FALSE, default |-> None],
       [name |-> "cluster", required |-> FALSE, default |-> None] >>

FieldNames(fields) == { fields[i].name : i \in DOMAIN fields }

\* model_validate of a model under ParentConfig's model_config: a field is
\* read from the key its validation alias names and from no other key
\* (populate_by_name is not set); a key that is no field's alias is ignored
\* (extra is not set); a required field that was not read fails validation
PydanticValidate(fields, raw) ==
    LET missing == { i \in DOMAIN fields :
                        fields[i].required /\ ToKebab(fields[i].name) \notin DOMAIN raw }
    IN  IF missing # {}
        THEN [ok |-> FALSE,
              missing |-> { ToKebab(fields[i].name) : i \in missing },
              value |-> EmptyDict]
        ELSE [ok |-> TRUE,
              missing |-> {},
              value |-> [n \in FieldNames(fields) |->
                           LET f == fields[CHOOSE i \in DOMAIN fields : fields[i].name = n]
                           IN  IF ToKebab(n) \in DOMAIN raw THEN raw[ToKebab(n)]
                               ELSE f.default]]

\* The raw input that supplies the given values, the fields in underscored
\* under their internal name and the others under their hyphenated name
RawInput(values, underscored) ==
    LET key(n) == IF n \in underscored THEN n ELSE ReplaceUnderscores(n)
    IN  [k \in { key(n) : n \in DOMAIN values } |->
            values[CHOOSE n \in DOMAIN values : key(n) = k]]

AliasValues == {"x", "y"}

InitAlias ==
    /\ HooksIdle
    /\ op = ""
    /\ ret = << >>
    /\ \E supplied \in SUBSET FieldNames(CinderConfigurationFields) :
       \E values \in [supplied -> AliasValues], underscored \in SUBSET supplied :
          arg = [values |-> values, underscored |-> underscored]

\* CinderConfiguration.model_validate on the input spelled with hyphens
\* throughout and on the input that spells arg.underscored with underscores
ValidateSpellings ==
    /\ op = ""
    /\ op' = "validate_spellings"
    /\ ret' = [hyphenated  |-> PydanticValidate(CinderConfigurationFields,
                                                RawInput(arg.values, {})),
               underscored |-> PydanticValidate(CinderConfigurationFields,
                                                RawInput(arg.values, arg.underscored))]
    /\ UNCHANGED <<arg, hookVars>>

NextAlias == ValidateSpellings

SpecAlias == InitAlias /\ [][NextAlias]_vars

\* C12: whenever the input spelled with hyphens is accepted, the input that
\* supplies the same values with some keys spelled with underscores is
\* accepted too and yields the same internal values.
C12_SpellingsAgree ==
    op = "validate_spellings" /\ ret.hyphenated.ok =>
        /\ ret.underscored.ok
        /\ ret.underscored.value = ret.hyphenated.value

----------------------------------------------------------------------------
(* Properties of validation (SpecConfig).                                  *)

\* The volume-backend-name values that two configured backends share
DuplicatedNames(cfg) ==
    LET bs == AllBackends(cfg)
    IN  { bs[i].backend.volume_backend_name : i \in
            { i \in DOMAIN bs : \E j \in DOMAIN bs :
                j # i /\ bs[j].backend.volume_backend_name = bs[i].backend.volume_backend_name } }

\* The pool identifiers that two backends of one family share; the families
\* with a pool field are ceph (rbd_pool) and hitachi (hitachi_pools)
PoolField(b) == IF b.backend_type = "ceph" THEN b.backend.rbd_pool ELSE b.backend.hitachi_pools

DuplicatedPools(cfg, backend_type) ==
    LET bs == Tagged(cfg, backend_type)
    IN  { PoolField(bs[i]) : i \in
            { i \in DOMAIN bs : \E j \in DOMAIN bs : j # i /\ PoolField(bs[j]) = PoolField(bs[i]) } }

Validated == op = "model_validate"

\* C4, as claimed: whenever two configured backends share a
\* volume-backend-name, validation fails with an error naming the duplicated
\* name; when all names are distinct the name check raises nothing.
C4_AsClaimed ==
    Validated /\ FieldsValid(arg) =>
        IF DuplicatedNames(arg) # {}
        THEN ~ret.ok /\ ret.kind = "name" /\ ret.value \in DuplicatedNames(arg)
        ELSE ret.kind # "name"

\* C4, amended: whenever two configured backends share a volume-backend-name
\* (same family or not) validation fails; when per-field validation passes,
\* the error names a duplicated name, or, when two Ceph backends sharing an
\* rbd_pool are met first, that pool; when all names are pairwise distinct
\* the name check raises nothing.
C4_DuplicateNamesFail ==
    Validated =>
        /\ DuplicatedNames(arg) # {} => ~ret.ok
        /\ DuplicatedNames(arg) # {} /\ FieldsValid(arg) =>
             \/ ret.kind = "name" /\ ret.value \in DuplicatedNames(arg)
             \/ ret.kind = "pool" /\ ret.value \in DuplicatedPools(arg, "ceph")
        /\ DuplicatedNames(arg) = {} => ret.kind # "name"

\* A Ceph backend and a Hitachi backend share a name and validation has
\* failed naming it
C4_Witness ==
    /\ Validated
    /\ \E i \in DOMAIN arg.ceph, j \in DOMAIN arg.hitachi :
          /\ arg.ceph[i].value.volume_backend_name = arg.hitachi[j].value.volume_backend_name
          /\ ret.value = arg.ceph[i].value.volume_backend_name
    /\ ~ret.ok /\ ret.kind = "name" /\ ret.backend_type = "hitachi"

\* C5, as claimed: in every family, two backends of the family claiming the
\* same pool identifier make validation fail, and nothing but a duplicate
\* name or a same-family duplicate pool does (a pool shared across families
\* does not).
C5_AsClaimed ==
    Validated /\ FieldsValid(arg) =>
        /\ (\E t \in {"ceph", "hitachi"} : DuplicatedPools(arg, t) # {}) => ~ret.ok
        /\ ~ret.ok => \/ DuplicatedNames(arg) # {}
                      \/ \E t \in {"ceph", "hitachi"} : DuplicatedPools(arg, t) # {}

\* C5, amended: two Ceph backends claiming the same rbd_pool make validation
\* fail; no other family's pool identifier is checked, so two Hitachi
\* backends with the same hitachi_pools, and backends of different families
\* with the same pool identifier, do not make validation fail.
C5_CephPoolsUnique ==
    Validated /\ FieldsValid(arg) =>
        /\ DuplicatedPools(arg, "ceph") # {} => ~ret.ok
        /\ ~ret.ok => DuplicatedNames(arg) # {} \/ DuplicatedPools(arg, "ceph") # {}

\* Two Ceph backends with distinct names share a pool and validation has
\* failed naming the pool
C5_Witness ==
    /\ Validated /\ ~ret.ok /\ ret.kind = "pool"
    /\ DuplicatedNames(arg) = {}
    /\ ret.value \in DuplicatedPools(arg, "ceph")

----------------------------------------------------------------------------
(* Properties of the aggregate collection (SpecCollection, SpecConfig).    *)

Constructed == op = "CinderBackendContexts"

\* Every enabled name has a context and there is at least one
Consistent(enabled_backends, contexts) ==
    /\ enabled_backends # << >>
    /\ \A i \in DOMAIN enabled_backends :
          \E j \in DOMAIN contexts : contexts[j].key = enabled_backends[i]

\* C6: building the collection succeeds iff the enabled list is non-empty and
\* every enabled name has a context; otherwise it fails with the
\* configuration error and no collection object is produced.
C6_CollectionBuilt ==
    Constructed =>
        IF Consistent(arg.enabled_backends, arg.contexts)
        THEN /\ ret.raised = ""
             /\ ret.object = << [enabled_backends |-> arg.enabled_backends,
                                 contexts |-> arg.contexts] >>
        ELSE /\ ret.raised \in {"At least one backend must be enabled",
                                "Context missing configuration for backends"}
             /\ ret.object = << >>

\* A non-empty enabled list with a name that has no context was refused
C6_Witness ==
    /\ Constructed
    /\ arg.enabled_backends # << >>
    /\ arg.contexts # << >>
    /\ ~Consistent(arg.enabled_backends, arg.contexts)
    /\ ret.raised = "Context missing configuration for backends"

Built == op = "backend_contexts" /\ ret.raised = ""

SecretKeys == {"rbd_key", "keyring", "mon_hosts", "auth"}

\* C10: for every Ceph backend of the collection, the summary stored under
\* cinder_backends.contexts[name] has none of the keys rbd_key, keyring,
\* mon_hosts, auth, and has every other key of the backend's full context
\* (which holds the non-null settings only).
C10_CephSummaryRedacted ==
    Built =>
        \A i \in DOMAIN ret.object[1].contexts :
            LET ctx == ret.object[1].contexts[i].value
                summary == ret.namespace.contexts[ctx.backend_name]
                settings == { k \in DOMAIN ctx.backend_config : ctx.backend_config[k] # None }
            IN  ctx.variant = "ceph" =>
                  /\ (DOMAIN summary) \cap SecretKeys = {}
                  /\ (settings \cup {"volume_driver", "rbd_ceph_conf"}) \ SecretKeys
                        \subseteq DOMAIN summary
                  /\ \A k \in settings \ SecretKeys : summary[k] = ctx.backend_config[k]
                  /\ \A k \in DOMAIN summary : summary[k] # None

\* A Ceph backend with an optional setting set has its summary in the
\* namespace, next to a Hitachi backend's
C10_Witness ==
    /\ Built
    /\ \E i \in DOMAIN ret.object[1].contexts :
          LET ctx == ret.object[1].contexts[i].value
          IN  /\ ctx.variant = "ceph"
              /\ ctx.backend_config.image_volume_cache_enabled = "True"
              /\ ret.namespace.contexts[ctx.backend_name].rbd_pool = ctx.backend_config.rbd_pool
    /\ \E i \in DOMAIN ret.object[1].contexts :
          ret.object[1].contexts[i].value.variant = "hitachi"

\* C13: for every configuration that validates, backend_contexts builds a
\* collection in which every backend of every family (ceph, hitachi, pure,
\* dellsc) has a context under its name, of the variant of its family and
\* holding its settings; a configuration with at least one backend is never
\* refused as having none enabled.
C13_EveryBackendHasContext ==
    op = "backend_contexts" /\ ModelValidate(arg).ok =>
        LET bs == AllBackends(arg)
        IN  /\ bs # << >> => ret.raised = ""
            /\ ret.raised = "" =>
                  \A i \in DOMAIN bs :
                     \E j \in DOMAIN ret.object[1].contexts :
                        LET entry == ret.object[1].contexts[j]
                        IN  /\ entry.key = bs[i].backend_key
                            /\ entry.value.backend_name = bs[i].backend_key
                            /\ entry.value.variant = bs[i].backend_type
                            /\ entry.value.backend_config = bs[i].backend

----------------------------------------------------------------------------
(* services.py and cinder_volume.py: the registry, the declared outputs    *)
(* and the render namespace.                                               *)

\* services.services(): the classes registered by __init_subclass__
Services ==
    << [name |-> "cinder-volume",
        configuration_files |-> {"etc/cinder/cinder.conf", "etc/cinder/rootwrap.conf"},
        configuration_directories |-> {"etc/cinder/cinder.conf.d"}] >>

\* CinderVolume.directories
CoreDirectories ==
    << CommonDirectory("etc/cinder"),
       CommonDirectory("etc/cinder/cinder.conf.d"),
       CommonDirectory("lib/cinder") >>

\* CinderVolume.template_files
CoreTemplateFiles ==
    << CommonTemplate("cinder.conf", ETC_CINDER, Mode640, None),
       CommonTemplate("rootwrap.conf", ETC_CINDER, Mode640, None) >>

\* A backend map as model_dump() nests it: key -> settings
AsDict(backends) ==
    [k \in Range(Keys(backends)) |-> backends[IndexOf(backends, k, 1)].value]

\* CinderVolume.render_context on a configuration that validates: the path
\* facts and one namespace per top-level field of the configuration
RenderContext(cfg) ==
    [ snap_paths |-> [common |-> SnapCommon],
      settings   |-> [debug |-> IF cfg.core = "debug" THEN "True" ELSE "False",
                      enable_telemetry_notifications |-> "False"],
      database   |-> [url |-> "sqlite:///x"],
      rabbitmq   |-> [url |-> "amqp://y"],
      cinder     |-> [project_id |-> "p", user_id |-> "u"],
      ceph       |-> AsDict(cfg.ceph),
      hitachi    |-> AsDict(cfg.hitachi),
      pure       |-> AsDict(cfg.pure),
      dellsc     |-> AsDict(cfg.dellsc) ]

\* The namespaces a bundled template refers to
TemplateReads(template_name) ==
    CASE template_name = "cinder.conf" ->
            {"snap_paths", "settings", "database", "rabbitmq", "cinder", "cinder_backends"}
      [] template_name = "rootwrap.conf"          -> {"snap_paths"}
      [] template_name = "ceph.conf.j2"           -> {"snap_paths", "ceph_ctx"}
      [] template_name = "ceph.client.keyring.j2" -> {"snap_paths", "ceph_ctx"}
      [] template_name = "backend.conf.j2"        -> {"snap_paths", "backend"}

\* tpl.render(**context): the output is determined by the template and by
\* the part of the namespace it refers to; its text is a sequence of
\* characters
JinjaTemplateRender(template_name, context) ==
    [template |-> template_name,
     data     |-> Restrict(context, TemplateReads(template_name)),
     text     |-> << "t", "\n" >>]

\* A normalisation that appends a newline whatever the text
EnsureTrailingNewlineAlways(rendered) == Append(rendered, "\n")

\* "ensure trailing new line": if len(rendered) > 0 and rendered[-1] != "\n":
\* rendered += "\n"
EnsureTrailingNewline(rendered) ==
    IF Len(rendered) > 0 /\ rendered[Len(rendered)] # "\n"
    THEN Append(rendered, "\n")
    ELSE rendered

\* rendered as _process_template hashes and writes it
Rendered(template_name, context) ==
    [JinjaTemplateRender(template_name, context) EXCEPT
        !.text = EnsureTrailingNewline(@)]

\* hash(text): equal texts have equal hashes and, collisions apart, only they
Hash(text) == << "hash", text >>

\* original_hash: None unless the destination file exists
OriginalHash(fs, dest_file) ==
    IF dest_file \in DOMAIN fs THEN Hash(fs[dest_file].content) ELSE << None >>

\* A comparison that never finds the file unchanged
SameHashNever(fs, dest_file, rendered) == FALSE

\* original_hash == new_hash
SameHash(fs, dest_file, rendered) == OriginalHash(fs, dest_file) = Hash(rendered)

\* dest_file.write_text(rendered): a new file gets the umask's mode, an
\* existing file keeps its mode
WriteText(fs, dest_file, rendered) ==
    Update(fs, [f \in {dest_file} |->
                  [content |-> rendered,
                   mode |-> IF dest_file \in DOMAIN fs THEN fs[dest_file].mode ELSE ModeUmask]])

\* A chmod that leaves the mode as it is
ChmodSkipped(fs, dest_file, mode) == fs

\* dest_file.chmod(template.mode)
Chmod(fs, dest_file, mode) ==
    Update(fs, [f \in {dest_file} |-> [fs[dest_file] EXCEPT !.mode = mode]])

\* Path.parent of the directories this repository declares
Parents(path) ==
    CASE path = "etc/cinder"               -> {"etc"}
      [] path = "etc/cinder/cinder.conf.d" -> {"etc", "etc/cinder"}
      [] path = "etc/ceph"                 -> {"etc"}
      [] path = "lib/cinder"               -> {"lib"}
      [] OTHER                             -> {}

\* path.mkdir(parents=True, exist_ok=True): missing ancestors and the
\* directory itself appear with the umask's mode, existing ones are left alone
Mkdir(ds, path) ==
    Update([p \in (Parents(path) \cup {path}) \ DOMAIN ds |-> ModeUmask], ds)

\* The directories setup_dirs walks
DeclaredDirectories(backend_contexts) ==
    CoreDirectories \o
    (IF backend_contexts = << >> THEN << >>
     ELSE Concat([i \in DOMAIN backend_contexts[1].contexts |->
                     Directories(backend_contexts[1].contexts[i].value)]))

\* The loop of setup_dirs: mkdir, then chmod(d.mode)
RECURSIVE MakeDirs(_, _)
MakeDirs(ds, directories) ==
    IF directories = << >> THEN ds
    ELSE MakeDirs(Update(Mkdir(ds, Head(directories).path),
                         [p \in {Head(directories).path} |-> Head(directories).mode]),
                  Tail(directories))

SetupDirsEffects(ds, directories) ==
    Concat([i \in DOMAIN directories |->
              (IF directories[i].path \in DOMAIN MakeDirs(ds, SubSeq(directories, 1, i - 1))
               THEN << >> ELSE << << "mkdir", directories[i].path >> >>)
              \o << << "chmod_dir", directories[i].path >> >>])

\* The templates of one render pass in the order template() processes them:
\* the general templates, then each backend's; first and last mark where the
\* backend's namespace is added and popped
BackendItems(ctx) ==
    [j \in DOMAIN TemplateFiles(ctx) |->
        [tpl |-> TemplateFiles(ctx)[j], ctx |-> << ctx >>,
         first |-> j = 1, last |-> j = Len(TemplateFiles(ctx))]]

RenderItems(collection) ==
    [j \in DOMAIN CoreTemplateFiles |->
        [tpl |-> CoreTemplateFiles[j], ctx |-> << >>, first |-> FALSE, last |-> FALSE]]
    \o Concat([i \in DOMAIN collection.contexts |-> BackendItems(collection.contexts[i].value)])

\* A reconciliation that looks at the service's declared files only
RECURSIVE StartServicesDeclaredOnly(_, _, _, _)
StartServicesDeclaredOnly(services, snap_services, modified_tpl, backend_tpls) ==
    IF services = << >> THEN << >>
    ELSE LET service == Head(services)
             modified_files == {RelPath(modified_tpl[i]) : i \in DOMAIN modified_tpl}
             rest == StartServicesDeclaredOnly(Tail(services), snap_services,
                                               modified_tpl, backend_tpls)
         IN  IF service.name \notin snap_services THEN rest
             ELSE IF modified_files \cap service.configuration_files # {}
             THEN << << "restart", service.name >> >> \o rest
             ELSE << << "start", service.name >> >> \o rest

\* A reconciliation that restarts every service it finds
RECURSIVE StartServicesAlwaysRestart(_, _, _, _)
StartServicesAlwaysRestart(services, snap_services, modified_tpl, backend_tpls) ==
    IF services = << >> THEN << >>
    ELSE LET service == Head(services)
             rest == StartServicesAlwaysRestart(Tail(services), snap_services,
                                                modified_tpl, backend_tpls)
         IN  IF service.name \notin snap_services THEN rest
             ELSE << << "restart", service.name >> >> \o rest

\* A reconciliation that gives up at the first service the supervisor does
\* not know
RECURSIVE StartServicesStopAtMissing(_, _, _, _)
StartServicesStopAtMissing(services, snap_services, modified_tpl, backend_tpls) ==
    IF services = << >> THEN << >>
    ELSE LET service == Head(services)
             modified_files == {RelPath(modified_tpl[i]) : i \in DOMAIN modified_tpl}
             backend_files == {RelPath(backend_tpls[i]) : i \in DOMAIN backend_tpls}
             common == modified_files \cap (service.configuration_files \cup backend_files)
             rest == StartServicesStopAtMissing(Tail(services), snap_services,
                                                modified_tpl, backend_tpls)
         IN  IF service.name \notin snap_services THEN << >>
             ELSE IF common # {}
             THEN << << "restart", service.name >> >> \o rest
             ELSE << << "start", service.name >> >> \o rest

\* CinderVolume.start_services: the calls it issues, in order
RECURSIVE StartServices(_, _, _, _)
StartServices(services, snap_services, modified_tpl, backend_tpls) ==
    IF services = << >> THEN << >>
    ELSE LET service == Head(services)
             modified_files == {RelPath(modified_tpl[i]) : i \in DOMAIN modified_tpl}
             backend_files == {RelPath(backend_tpls[i]) : i \in DOMAIN backend_tpls}
             common == modified_files \cap (service.configuration_files \cup backend_files)
             rest == StartServices(Tail(services), snap_services, modified_tpl, backend_tpls)
         IN  IF service.name \notin snap_services THEN rest
             ELSE IF common # {}
             THEN << << "restart", service.name >> >> \o rest
             ELSE << << "start", service.name >> >> \o rest

----------------------------------------------------------------------------
(* SpecNewline: the normalisation of _process_template on every text of    *)
(* up to MaxLen characters.                                                *)

MaxLen == 4         \* characters of a rendered text

Characters == {"a", "b", "\n"}

InitNewline ==
    /\ HooksIdle
    /\ op = ""
    /\ ret = << >>
    /\ arg \in SeqsUpTo(Characters, MaxLen)

\* The two statements after tpl.render(**context)
Normalize ==
    /\ op = ""
    /\ op' = "ensure_trailing_newline"
    /\ ret' = EnsureTrailingNewline(arg)
    /\ UNCHANGED <<arg, hookVars>>

NextNewline == Normalize

SpecNewline == InitNewline /\ [][NextNewline]_vars

\* The number of newline characters a text ends with
RECURSIVE TrailingNewlines(_)
TrailingNewlines(text) ==
    IF text = << >> \/ text[Len(text)] # "\n" THEN 0
    ELSE 1 + TrailingNewlines(SubSeq(text, 1, Len(text) - 1))

Normalized == op = "ensure_trailing_newline"

\* C17, as claimed: whatever the rendered text, the text written ends with
\* exactly one newline.
C17_AsClaimed ==
    Normalized => TrailingNewlines(ret) = 1

\* C17, amended: a non-empty rendered text is written ending with at least
\* one newline: a text without a final newline gets exactly one appended, a
\* text ending in one or several newlines is written as it is; an empty
\* text is written empty.
C17_NewlineEnsured ==
    Normalized =>
        /\ arg # << >> => TrailingNewlines(ret) >= 1
        /\ arg # << >> /\ TrailingNewlines(arg) = 0 => ret = arg \o << "\n" >>
        /\ TrailingNewlines(arg) >= 1 => ret = arg
        /\ arg = << >> => ret = << >>

\* A text ending in two newlines went through unchanged
C17_Witness ==
    /\ Normalized
    /\ Len(arg) >= 3 /\ TrailingNewlines(arg) = 2
    /\ ret = arg

----------------------------------------------------------------------------
(* SpecServices: start_services on every registry of up to MaxServices     *)
(* services, every supervisor list and a choice of modified templates.     *)
(* The registry is filled by OpenStackService.__init_subclass__, so a snap  *)
(* built on this package may register services next to cinder-volume.      *)

MaxServices == 3    \* services registered at once

\* Service classes a registry may hold: cinder-volume as services.py
\* declares it, and two further subclasses of OpenStackService
ServiceClasses ==
    { Services[1],
      [name |-> "cinder-backup",
       configuration_files |-> {"etc/cinder/cinder.conf"},
       configuration_directories |-> {}],
      [name |-> "cinder-scheduler",
       configuration_files |-> {},
       configuration_directories |-> {}] }

\* The registries: the classes in the order they were defined, none twice
Registries ==
    { r \in SeqsUpTo(ServiceClasses, MaxServices) :
        \A i, j \in DOMAIN r : i # j => r[i] # r[j] }

\* The lists of modified templates tried: none, a general one, a backend's
ModifiedChoices ==
    { << >>,
      << CoreTemplateFiles[1] >>,
      << CommonTemplate("a.conf", CINDER_CONF_D, Mode640, "backend.conf.j2") >> }

InitServices ==
    /\ HooksIdle
    /\ op = ""
    /\ ret = << >>
    /\ \E r \in Registries, modified \in ModifiedChoices :
       \E known \in SUBSET { c.name : c \in ServiceClasses } :
          arg = [services |-> r, snap_services |-> known, modified_tpl |-> modified,
                 backend_tpls |-> << CommonTemplate("a.conf", CINDER_CONF_D, Mode640,
                                                    "backend.conf.j2") >>]

\* start_services(snap, modified_tpl, backend_tpls); it has no raise
\* statement and calls nothing on a service the supervisor does not list
CallStartServices ==
    /\ op = ""
    /\ op' = "start_services"
    /\ ret' = [raised |-> "",
               calls  |-> StartServices(arg.services, arg.snap_services,
                                        arg.modified_tpl, arg.backend_tpls)]
    /\ UNCHANGED <<arg, hookVars>>

NextServices == CallStartServices

SpecServices == InitServices /\ [][NextServices]_vars

\* The calls a service has received from the reconciliation examined
CallsOf(name) == { i \in DOMAIN ret.calls : ret.calls[i][2] = name }

\* C19: a registered service the supervisor does not list receives neither
\* start nor restart, the reconciliation raises no error, and every
\* registered service the supervisor does list, before or after the missing
\* one in the registry, receives its one call.
C19_MissingServiceSkipped ==
    op = "start_services" =>
        /\ ret.raised = ""
        /\ \A i \in DOMAIN arg.services :
              IF arg.services[i].name \in arg.snap_services
              THEN Cardinality(CallsOf(arg.services[i].name)) = 1
              ELSE CallsOf(arg.services[i].name) = {}
        /\ \A i \in DOMAIN ret.calls : ret.calls[i][1] \in {"start", "restart"}

\* Of three registered services the second is unknown to the supervisor;
\* the first and the third have been reconciled
C19_Witness ==
    /\ op = "start_services"
    /\ Len(arg.services) = 3
    /\ arg.services[2].name \notin arg.snap_services
    /\ arg.services[1].name \in arg.snap_services
    /\ arg.services[3].name \in arg.snap_services
    /\ Len(ret.calls) = 2
    /\ ret.calls[2][2] = arg.services[3].name

----------------------------------------------------------------------------
(* SpecResolve: how _process_template finds the source of a template in    *)
(* the directories of templates_search_path.  A source on disk is a pair   *)
(* <<directory, file name>>.                                               *)

OverrideTemplates == "common/templates"      \* snap.paths.common / "templates"
PackageTemplates == "cinder_volume/templates" \* Path(__file__).parent / "templates"
ClassTemplates == "backend_type/templates"   \* the directory of a subclass defined
                                             \* in a module of another directory

\* CinderVolume.templates_search_path; class_templates is the templates
\* directory next to the file that defines self.__class__
TemplatesSearchPath(class_templates) ==
    << OverrideTemplates, class_templates, PackageTemplates >>

\* env.get_template(name) with a FileSystemLoader: the first directory of
\* the search path that holds a file of that name, TemplateNotFound if none
\* does
RECURSIVE GetTemplate(_, _, _)
GetTemplate(searchpath, on_disk, name) ==
    IF searchpath = << >> THEN Raise("TemplateNotFound")
    ELSE IF << Head(searchpath), name >> \in on_disk
    THEN Return(<< Head(searchpath), name >>)
    ELSE GetTemplate(Tail(searchpath), on_disk, name)

\* A lookup that makes do with an empty template when there is no source
LoadTemplateOrEmpty(searchpath, on_disk, template_file) ==
    IF GetTemplate(searchpath, on_disk, template_file).raised = ""
    THEN GetTemplate(searchpath, on_disk, template_file)
    ELSE IF GetTemplate(searchpath, on_disk, template_file \o ".j2").raised = ""
    THEN GetTemplate(searchpath, on_disk, template_file \o ".j2")
    ELSE Return(<< "", template_file >>)

\* The try statement of _process_template: get_template(template_file) and,
\* on TemplateNotFound, get_template(template_file + ".j2"), whose
\* TemplateNotFound is not caught
LoadTemplate(searchpath, on_disk, template_file) ==
    IF GetTemplate(searchpath, on_disk, template_file).raised = ""
    THEN GetTemplate(searchpath, on_disk, template_file)
    ELSE GetTemplate(searchpath, on_disk, template_file \o ".j2")

\* The names template.template() returns for the descriptors of this
\* repository: one without and one with the marker extension
TemplateFileNames == {"cinder.conf", "backend.conf.j2"}

InitResolve ==
    /\ HooksIdle
    /\ op = ""
    /\ ret = << >>
    /\ \E template_file \in TemplateFileNames,
          class_templates \in {ClassTemplates, PackageTemplates} :
       \E on_disk \in SUBSET (Range(TemplatesSearchPath(class_templates))
                                \X {template_file, template_file \o ".j2"}) :
          arg = [template_file |-> template_file, class_templates |-> class_templates,
                 sources |-> on_disk]

\* tpl = env.get_template(...) in _process_template
Resolve ==
    /\ op = ""
    /\ op' = "get_template"
    /\ ret' = LoadTemplate(TemplatesSearchPath(arg.class_templates), arg.sources,
                           arg.template_file)
    /\ UNCHANGED <<arg, hookVars>>

NextResolve == Resolve

SpecResolve == InitResolve /\ [][NextResolve]_vars

\* The directories of the search path that hold a source of the template,
\* under either name
HoldingDirectories ==
    { d \in Range(TemplatesSearchPath(arg.class_templates)) :
        \E n \in {arg.template_file, arg.template_file \o ".j2"} : << d, n >> \in arg.sources }

\* C22: the source loaded comes from the operator override directory
\* whenever that directory holds one (under the primary or the suffixed
\* name), whatever the bundled directories hold, and from the backend
\* type's bundled directory rather than the generic one when the override
\* directory holds none and the backend type's directory does.
C22_ThreeTierPriority ==
    op = "get_template" =>
        /\ OverrideTemplates \in HoldingDirectories =>
              ret.raised = "" /\ ret.object[1][1] = OverrideTemplates
        /\ /\ OverrideTemplates \notin HoldingDirectories
           /\ arg.class_templates \in HoldingDirectories
           => ret.raised = "" /\ ret.object[1][1] = arg.class_templates

----------------------------------------------------------------------------
(* Spec: the install and configure hooks, run one at a time on a snap      *)
(* whose configuration the operator changes between hooks.                 *)

MaxCycles == 2      \* hooks run in one behaviour

\* The configurations the operator sets: the unconfigured snap and, with the
\* required sections set, every combination of the backend maps below
LifecycleCeph ==
    { << >> } \cup
    { << [key |-> "a", value |-> CephConfiguration("fast-pool", "volumes", "mon1", None)] >> }

LifecycleHitachi ==
    { ha \o hb :
        ha \in { << >> } \cup
               { << [key |-> "a", value |-> HitachiConfiguration("slow-pool", "volumes", ip, "FC")] >> :
                   ip \in {"ip1", "ip2"} },
        hb \in { << >> } \cup
               { << [key |-> "b", value |-> HitachiConfiguration(n, "images", "ip1", "iSCSI")] >> :
                   n \in {"fast-pool", "bulk-pool"} } }

LifecyclePure ==
    { << >>, << [key |-> "a", value |-> PureConfiguration("bulk-pool", "fc")] >> }

LifecycleConfigs ==
    { NoConfiguration } \cup
    { Configuration(core, ceph, hitachi, pure, << >>) :
        core \in {"default", "debug"}, ceph \in LifecycleCeph,
        hitachi \in LifecycleHitachi, pure \in LifecyclePure }

\* The sources the snap ships in the templates directory of the package,
\* each under the name of its destination file with the marker extension
BundledTemplates ==
    { << PackageTemplates, n >> :
        n \in {"cinder.conf.j2", "rootwrap.conf.j2", "ceph.conf.j2",
               "ceph.client.keyring.j2", "backend.conf.j2"} }

\* The CinderVolume object a hook creates: cls()
NewSelf ==
    [ backend_contexts |-> << >>,     \* self._backend_contexts, << >> for None
      context          |-> EmptyDict, \* the render namespace of template()
      todo             |-> << >>,     \* the templates template() has yet to process
      modified         |-> << >>,     \* modified_templates
      backend_tpls     |-> << >>,     \* backend_tpls of configure()
      same             |-> FALSE,     \* the pass repeats the inputs of the pass before it
      rendering        |-> << >>,     \* the latest call of _process_template: its template,
                                      \* the backend it belongs to and the namespace it got
      caught           |-> << >>,     \* the exception template() caught and logged, if any
      raised           |-> << >> ]    \* the exception _process_template raised, if any

Init ==
    /\ config \in LifecycleConfigs
    /\ dirs = EmptyDict
    /\ files = EmptyDict
    /\ supervisor \in SUBSET {Services[i].name : i \in DOMAIN Services}
    /\ sources = BundledTemplates
    /\ running = [name \in supervisor |-> "stopped"]
    /\ hook = "none"
    /\ pc = "idle"
    /\ self = NewSelf
    /\ effects = << >>
    /\ outcome = "none"
    /\ last = << >>
    /\ cycles = 0
    /\ op = ""
    /\ arg = << >>
    /\ ret = << >>

pureVars == <<op, arg, ret>>

\* The backends of the running hook's collection
EnabledContexts ==
    IF self.backend_contexts = << >> THEN << >>
    ELSE Values(self.backend_contexts[1].contexts)

\* snap set / snap unset between two hooks; snapd then runs a hook
SnapSetIn(configs, max) ==
    /\ pc = "idle"
    /\ cycles > 0
    /\ cycles < max
    /\ config' \in configs \ {config}
    /\ pc' = "set"
    /\ UNCHANGED <<dirs, files, supervisor, sources, running, hook, self, effects, outcome, last,
                   cycles, pureVars>>

SnapSet == SnapSetIn(LifecycleConfigs, MaxCycles)

\* install_hook up to the call of install()
InstallHookWithin(max) ==
    /\ hook = "none"
    /\ cycles < max
    /\ hook' = "install"
    /\ pc' = "setup_dirs"
    /\ self' = NewSelf
    /\ effects' = << >>
    /\ outcome' = "none"
    /\ cycles' = cycles + 1
    /\ UNCHANGED <<config, dirs, files, supervisor, sources, running, last, pureVars>>

InstallHook == InstallHookWithin(MaxCycles)

\* configure_hook and the first statement of configure(): backend_contexts(snap);
\* a CinderError leaves configure() and is logged by configure_hook
ConfigureHookWithin(max) ==
    /\ hook = "none"
    /\ cycles < max
    /\ hook' = "configure"
    /\ effects' = << >>
    /\ cycles' = cycles + 1
    /\ LET r == BackendContexts(config)
       IN  IF r.raised # ""
           THEN /\ pc' = "done"
                /\ outcome' = "logged"
                /\ self' = NewSelf
           ELSE /\ pc' = "setup_dirs"
                /\ outcome' = "none"
                /\ self' = [NewSelf EXCEPT !.backend_contexts = r.object]
    /\ UNCHANGED <<config, dirs, files, supervisor, sources, running, last, pureVars>>

ConfigureHook == ConfigureHookWithin(MaxCycles)

\* CinderVolume.setup_dirs
SetupDirs ==
    /\ pc = "setup_dirs"
    /\ LET directories == DeclaredDirectories(self.backend_contexts)
       IN  /\ dirs' = MakeDirs(dirs, directories)
           /\ effects' = effects \o SetupDirsEffects(dirs, directories)
    /\ pc' = "template"
    /\ UNCHANGED <<config, files, supervisor, sources, running, hook, self, outcome, last, cycles, pureVars>>

\* An install() that goes on to reconcile the services as configure() does
AfterTemplateReconcile(h) == "start_services"

\* A configure() that goes from template() straight to start_services
AfterTemplateNoSetup(h) == IF h = "configure" THEN "start_services" ELSE "done"

\* Where a hook goes on when template() returns
AfterTemplate(h) == IF h = "configure" THEN "setup" ELSE "done"

\* What render_context(snap) raises, "" when it returns: contexts() calls
\* get_config, whose CinderError an invalid configuration brings about, and
\* render_context calls context() on every provider, one of which may raise
\* (fault)
RenderContextRaises(cfg, fault) ==
    IF GetConfig(cfg).raised # "" THEN "CinderError"
    ELSE IF fault THEN "RuntimeError"
    ELSE ""

\* except Exception around render_context: every exception is caught
Caught(exception) == TRUE

\* CinderVolume.template up to its first loop: the namespace is assembled (an
\* exception is logged and ends the pass with nothing modified), the backend
\* collection is fetched (a CinderError leaves the hook) and stored under its
\* namespace
Template ==
    /\ pc = "template"
    /\ \E fault \in BOOLEAN :
        LET exception == RenderContextRaises(config, fault) IN
        IF exception # "" /\ Caught(exception)
        THEN /\ pc' = AfterTemplate(hook)
             /\ outcome' = IF hook = "install" THEN "ok" ELSE outcome
             /\ last' = IF exception = "CinderError" THEN << config >> ELSE << >>
             /\ self' = [self EXCEPT
                           !.same = (exception = "CinderError" /\ last = << config >>),
                           !.caught = << exception >>]
        ELSE IF exception # ""
        THEN /\ pc' = "done"
             /\ outcome' = "failed"
             /\ last' = << >>
             /\ self' = self
        ELSE LET r == IF self.backend_contexts # << >>
                      THEN Return(self.backend_contexts[1])
                      ELSE BackendContexts(config)
             IN  IF r.raised # ""
                 THEN /\ pc' = "done"
                      /\ outcome' = "raised"
                      /\ last' = << >>
                      /\ self' = self
                 ELSE /\ pc' = "process"
                      /\ outcome' = outcome
                      /\ last' = << >>
                      /\ self' = [self EXCEPT
                                    !.backend_contexts = r.object,
                                    !.context = Update(RenderContext(config),
                                                  [cinder_backends |->
                                                     CinderBackendsNamespace(r.object[1])]),
                                    !.todo = RenderItems(r.object[1]),
                                    !.same = (last = << config >>)]
    /\ UNCHANGED <<config, dirs, files, supervisor, sources, running, hook, effects, cycles, pureVars>>

\* A pop that leaves the namespace as it is
PopSkipped(context, namespace) == context

\* context.pop(backend_context.namespace)
Pop(context, namespace) == Restrict(context, (DOMAIN context) \ {namespace})

\* A hook whose failed step is followed by the reconciliation all the same
AfterFailureReconcile(h) == IF h = "configure" THEN "start_services" ELSE "done"

\* Where a hook goes on when one of its steps raises an exception that is
\* not a CinderError (an OSError of mkdir, chmod or write_text, a jinja2
\* error, an exception of a backend's setup): nothing in install(),
\* configure() or the hooks catches it
AfterFailure(h) == "done"

\* The namespace the next template is processed in: its backend's full
\* context is stored under the backend's tag before the backend's first
\* template
Entered ==
    LET item == Head(self.todo)
    IN  IF item.first
        THEN Update(self.context, [ns \in {item.ctx[1].namespace} |-> Context(item.ctx[1])])
        ELSE self.context

\* The lookup of the next template's source, in the search path of
\* GenericCinderVolume (defined in the package's own directory)
Loaded ==
    LoadTemplate(TemplatesSearchPath(PackageTemplates), sources,
                 TemplateName(Head(self.todo).tpl))

\* dest_dir.mkdir(parents=True, exist_ok=True) as the running hook's effect
MadeDestDir ==
    IF Head(self.todo).tpl.dest \in DOMAIN dirs THEN << >>
    ELSE << << "mkdir", Head(self.todo).tpl.dest >> >>

\* A service reads its declared configuration files and the dedicated
\* files of the backends
ReadBy(name, dest_file) ==
    \/ \E i \in DOMAIN Services :
          Services[i].name = name /\ dest_file \in Services[i].configuration_files
    \/ dest_file \notin { DestFile(CoreTemplateFiles[i]) : i \in DOMAIN CoreTemplateFiles }

\* The services after dest_file.write_text: a running service that reads
\* the file now runs on configuration older than the disk's
AfterWrite(services, dest_file) ==
    [name \in DOMAIN services |->
        IF services[name] = "current" /\ ReadBy(name, dest_file)
        THEN "stale" ELSE services[name]]

\* One turn of the loops of template(): _process_template on the next
\* template, inside the namespace of the backend it belongs to; a source
\* found under neither name raises TemplateNotFound out of the hook
ProcessTemplate ==
    /\ pc = "process"
    /\ LET item == Head(self.todo)
           tpl == item.tpl
           left == IF item.last THEN Pop(Entered, item.ctx[1].namespace) ELSE Entered
           dest_file == DestFile(tpl)
           rendered == Rendered(TemplateName(tpl), Entered)
           changed == ~SameHash(files, dest_file, rendered)
       IN  /\ dirs' = Mkdir(dirs, tpl.dest)
           /\ IF Loaded.raised # ""
              THEN /\ files' = files
                   /\ running' = running
                   /\ effects' = effects \o MadeDestDir
                   /\ self' = [self EXCEPT
                                 !.context = Entered,
                                 !.rendering = << [tpl |-> tpl, ctx |-> item.ctx,
                                                   context |-> Entered] >>,
                                 !.raised = << Loaded.raised >>]
                   /\ pc' = AfterFailure(hook)
                   /\ outcome' = "failed"
                   /\ last' = last
              ELSE /\ files' = IF changed
                               THEN Chmod(WriteText(files, dest_file, rendered),
                                          dest_file, tpl.mode)
                               ELSE files
                   /\ running' = IF changed THEN AfterWrite(running, dest_file) ELSE running
                   /\ effects' = effects \o MadeDestDir \o
                                 (IF changed
                                  THEN << << "write", dest_file >>, << "chmod", dest_file >> >>
                                  ELSE << >>)
                   /\ self' = [self EXCEPT
                                 !.context = left,
                                 !.rendering = << [tpl |-> tpl, ctx |-> item.ctx,
                                                   context |-> Entered] >>,
                                 !.todo = Tail(self.todo),
                                 !.modified = IF changed THEN Append(@, tpl) ELSE @]
                   /\ IF Tail(self.todo) = << >>
                      THEN /\ pc' = AfterTemplate(hook)
                           /\ outcome' = IF hook = "install" THEN "ok" ELSE outcome
                           /\ last' = << config >>
                      ELSE /\ pc' = "process"
                           /\ UNCHANGED <<outcome, last>>
    /\ UNCHANGED <<config, supervisor, sources, hook, cycles, pureVars>>

\* The loop of configure() over the backend contexts: template_files() is
\* collected and setup(snap) is run for each
BackendSetup ==
    /\ pc = "setup"
    /\ LET ctxs == Values(self.backend_contexts[1].contexts)
       IN  /\ self' = [self EXCEPT
                         !.backend_tpls = Concat([i \in DOMAIN ctxs |-> TemplateFiles(ctxs[i])])]
           /\ effects' = effects \o [i \in DOMAIN ctxs |-> << "setup", ctxs[i].backend_name >>]
    /\ pc' = "start_services"
    /\ UNCHANGED <<config, dirs, files, supervisor, sources, running, hook, outcome, last, cycles, pureVars>>

\* The supervisor on service.start() and service.restart(): start brings
\* up a stopped service and leaves a running one alone, restart brings the
\* service up anew; a service brought up reads the files as they are
AfterCalls(services, calls) ==
    [name \in DOMAIN services |->
        IF << "restart", name >> \in Range(calls) THEN "current"
        ELSE IF << "start", name >> \in Range(calls) /\ services[name] = "stopped"
        THEN "current"
        ELSE services[name]]

\* The last statement of configure(): start_services
Reconcile ==
    /\ pc = "start_services"
    /\ LET calls == StartServices(Services, supervisor, self.modified, self.backend_tpls)
       IN  /\ effects' = effects \o calls
           /\ running' = AfterCalls(running, calls)
    /\ pc' = "done"
    /\ outcome' = "ok"
    /\ UNCHANGED <<config, dirs, files, supervisor, sources, hook, self, last, cycles, pureVars>>

\* A step of the running hook raises such an exception: setup_dirs after
\* some of its directories, _process_template on the next template, or the
\* setup loop after some of the backends
StepFails ==
    /\ pc \in {"setup_dirs", "process", "setup"}
    /\ \/ /\ pc = "setup_dirs"
          /\ \E k \in 0 .. Len(DeclaredDirectories(self.backend_contexts)) - 1 :
                LET done == SubSeq(DeclaredDirectories(self.backend_contexts), 1, k)
                IN  /\ dirs' = MakeDirs(dirs, done)
                    /\ effects' = effects \o SetupDirsEffects(dirs, done)
          /\ self' = self
       \/ /\ pc = "process"
          /\ UNCHANGED <<dirs, effects, self>>
       \/ /\ pc = "setup"
          /\ \E k \in 0 .. Len(EnabledContexts) - 1 :
                /\ effects' = effects \o
                      [i \in 1 .. k |-> << "setup", EnabledContexts[i].backend_name >>]
                /\ self' = [self EXCEPT !.backend_tpls =
                               Concat([i \in 1 .. k + 1 |-> TemplateFiles(EnabledContexts[i])])]
          /\ dirs' = dirs
    /\ pc' = AfterFailure(hook)
    /\ outcome' = "failed"
    /\ UNCHANGED <<config, files, supervisor, sources, running, hook, last, cycles, pureVars>>

\* The hook's process ends
Exit ==
    /\ pc = "done"
    /\ hook' = "none"
    /\ pc' = "idle"
    /\ self' = NewSelf
    /\ effects' = << >>
    /\ UNCHANGED <<config, dirs, files, supervisor, sources, running, outcome, last, cycles, pureVars>>

Next ==
    \/ SnapSet
    \/ InstallHook
    \/ ConfigureHook
    \/ SetupDirs
    \/ Template
    \/ ProcessTemplate
    \/ BackendSetup
    \/ Reconcile
    \/ StepFails
    \/ Exit

Spec == Init /\ [][Next]_vars

----------------------------------------------------------------------------
(* SpecFaults: the hooks over more cycles on a few configurations of a     *)
(* Ceph backend with or without a Hitachi backend, on a snap whose         *)
(* templates directory may lack a source, and whose hook process may be    *)
(* interrupted between writing a file and setting its mode.                *)

MaxFaultCycles == 3     \* hooks run in one behaviour of SpecFaults

FaultConfigs ==
    { Configuration(core,
                    << [key |-> "a",
                        value |-> CephConfiguration("fast-pool", "volumes", "mon1", None)] >>,
                    hitachi, << >>, << >>) :
        core \in {"default", "debug"},
        hitachi \in { << >>,
                      << [key |-> "b",
                          value |-> HitachiConfiguration("bulk-pool", "images", "ip1",
                                                         "iSCSI")] >> } }

\* The templates directories: complete, or lacking the source of the
\* Hitachi backends' dedicated file under both names
FaultSources ==
    { BundledTemplates, BundledTemplates \ { << PackageTemplates, "backend.conf.j2" >> } }

InitFaults ==
    /\ config \in FaultConfigs
    /\ dirs = EmptyDict
    /\ files = EmptyDict
    /\ supervisor = {Services[i].name : i \in DOMAIN Services}
    /\ sources \in FaultSources
    /\ running = [name \in supervisor |-> "stopped"]
    /\ hook = "none"
    /\ pc = "idle"
    /\ self = NewSelf
    /\ effects = << >>
    /\ outcome = "none"
    /\ last = << >>
    /\ cycles = 0
    /\ op = ""
    /\ arg = << >>
    /\ ret = << >>

\* The hook's process ends inside _process_template after
\* dest_file.write_text(rendered) and before dest_file.chmod(template.mode):
\* it is killed, or chmod raises
Interrupted ==
    /\ pc = "process"
    /\ Loaded.raised = ""
    /\ LET tpl == Head(self.todo).tpl
           dest_file == DestFile(tpl)
           rendered == Rendered(TemplateName(tpl), Entered)
       IN  /\ ~SameHash(files, dest_file, rendered)
           /\ dirs' = Mkdir(dirs, tpl.dest)
           /\ files' = WriteText(files, dest_file, rendered)
           /\ running' = AfterWrite(running, dest_file)
           /\ effects' = effects \o MadeDestDir \o << << "write", dest_file >> >>
    /\ pc' = AfterFailure(hook)
    /\ outcome' = "failed"
    /\ UNCHANGED <<config, supervisor, sources, hook, self, last, cycles, pureVars>>

NextFaults ==
    \/ SnapSetIn(FaultConfigs, MaxFaultCycles)
    \/ InstallHookWithin(MaxFaultCycles)
    \/ ConfigureHookWithin(MaxFaultCycles)
    \/ SetupDirs
    \/ Template
    \/ ProcessTemplate
    \/ BackendSetup
    \/ Reconcile
    \/ StepFails
    \/ Interrupted
    \/ Exit

SpecFaults == InitFaults /\ [][NextFaults]_vars

----------------------------------------------------------------------------
(* Properties of the hooks (Spec).                                         *)

\* The targets of the running hook's effects of the given kinds
Targets(ops) == { effects[i][2] : i \in { j \in DOMAIN effects : effects[j][1] \in ops } }

Written == Targets({"write"})

\* The number of start and restart calls a service has received
CallsTo(name) ==
    Cardinality({ i \in DOMAIN effects :
                    effects[i][1] \in {"start", "restart"} /\ effects[i][2] = name })

Restarted(name) == << "restart", name >> \in Range(effects)

Started(name) == << "start", name >> \in Range(effects)

\* The dedicated files of the backends of the running hook's collection
DedicatedFiles ==
    IF self.backend_contexts = << >> THEN {}
    ELSE UNION { { DestFile(TemplateFiles(c)[j]) : j \in DOMAIN TemplateFiles(c) } :
                    c \in Range(Values(self.backend_contexts[1].contexts)) }

Reconciled == hook = "configure" /\ pc = "done" /\ outcome = "ok"

\* C1: a render pass that follows a completed pass with the same inputs
\* writes no file, changes no file's mode and reports nothing modified, and
\* the reconciliation after it issues start, never restart, to every
\* service the supervisor knows.
C1_RenderIdempotent ==
    self.same =>
        /\ Targets({"write", "chmod"}) = {}
        /\ self.modified = << >>
        /\ Targets({"restart"}) = {}
        /\ Reconciled =>
             \A i \in DOMAIN Services :
                Services[i].name \in supervisor => Started(Services[i].name)

\* A configure cycle has repeated a pass that had written files, and has
\* started the service
C1_Witness ==
    /\ Reconciled /\ self.same
    /\ files # EmptyDict
    /\ self.todo = << >> /\ self.context # EmptyDict
    /\ Started("cinder-volume")

\* The only file the cycle has written is one backend's dedicated file
OnlyOneBackendFileWritten ==
    /\ Reconciled
    /\ Cardinality(Written) = 1
    /\ Written \subseteq DedicatedFiles

CannotBuild(cfg) ==
    \/ cfg.core = "unset"
    \/ DuplicatedNames(cfg) # {}
    \/ DuplicatedPools(cfg, "ceph") # {}
    \/ (cfg.ceph = << >> /\ cfg.hitachi = << >>)

\* C7: a configure cycle whose configuration fails validation or whose
\* collection cannot be built stops with the error before any directory is
\* created or re-moded, any file written, any backend set up and any
\* service started or restarted.
C7_AbortBeforeEffects ==
    [][ (hook' = "configure" /\ CannotBuild(config')) =>
            /\ dirs' = dirs
            /\ files' = files
            /\ effects' = << >>
            /\ pc' = "done"
            /\ outcome' = "logged" ]_vars

\* A configure cycle has stopped on two backends of different families that
\* share their name, on a disk an earlier cycle had filled
C7_Witness ==
    /\ hook = "configure" /\ pc = "done" /\ outcome = "logged"
    /\ config.core # "unset"
    /\ DuplicatedNames(config) # {}
    /\ files # EmptyDict

\* C8, as claimed: an install cycle never lets a configuration error reach
\* its caller; it ends normally whatever the configuration.
C8_InstallSwallowsErrors ==
    hook = "install" => outcome # "raised"

\* C9: an install cycle issues neither start nor restart
C9_InstallNoServiceCalls ==
    hook = "install" => Targets({"start", "restart"}) = {}

\* An install cycle has written files and ended, with the service known to
\* the supervisor
C9_Witness ==
    /\ hook = "install" /\ pc = "done" /\ outcome = "ok"
    /\ Written # {}
    /\ supervisor = {"cinder-volume"}

\* The mode a destination file's descriptor declares: 0o600 for the keyring
\* of a Ceph backend, 0o640 for every other file
DeclaredMode(dest_file) ==
    IF \E i \in DOMAIN BackendKeys :
          dest_file = "etc/ceph/ceph.client." \o BackendKeys[i] \o ".keyring"
    THEN "0o600" ELSE "0o640"

\* C11: every file the running pass has written has the mode its template
\* descriptor declares: 0o640 unless declared otherwise, 0o600 for a Ceph
\* backend's keyring.
C11_WrittenFilesHaveDeclaredMode ==
    \A f \in Written : f \in DOMAIN files /\ files[f].mode = DeclaredMode(f)

\* A pass has ended having written a Ceph backend's keyring, its ceph.conf
\* and the general files
C11_Witness ==
    /\ pc = "done" /\ outcome = "ok"
    /\ {"etc/ceph/ceph.client.a.keyring", "etc/ceph/a.conf", "etc/cinder/cinder.conf"}
          \subseteq Written
    /\ files["etc/ceph/ceph.client.a.keyring"].mode = "0o600"
    /\ files["etc/ceph/a.conf"].mode = "0o640"

\* The changed paths start_services works with: modified_files
ModifiedFiles == { RelPath(self.modified[i]) : i \in DOMAIN self.modified }

\* C14: the changed paths the hook carries from the render pass to the
\* reconciliation are exactly the destination paths of the files the pass
\* has written.
C14_ChangedPathsAreWrittenPaths ==
    hook # "none" => ModifiedFiles = Written

\* The effects of the running hook are in the order the ranks give: no
\* effect of a higher rank comes before one of a lower rank
InOrder(rank) ==
    \A i, j \in DOMAIN effects : i < j => rank[effects[i][1]] <= rank[effects[j][1]]

\* Every enabled backend's setup has run
AllSetUp ==
    \A i \in DOMAIN EnabledContexts :
        << "setup", EnabledContexts[i].backend_name >> \in Range(effects)

\* C15, as claimed: a configure cycle creates the directories, then runs
\* every backend's setup, then renders the templates, then reconciles the
\* services; no file is written before the last setup has run.
C15_AsClaimed ==
    hook = "configure" =>
        InOrder([mkdir |-> 1, chmod_dir |-> 1, setup |-> 2, write |-> 3, chmod |-> 3,
                 start |-> 4, restart |-> 4])

\* C15, amended: a configure cycle builds the collection from the validated
\* configuration before anything else, creates the directories, then
\* renders all templates, then runs every backend's setup, then reconciles
\* the services; every template has been processed before the first setup
\* runs and every setup has run before the first start or restart.
C15_RenderThenSetup ==
    hook = "configure" =>
        /\ InOrder([mkdir |-> 1, chmod_dir |-> 1, write |-> 2, chmod |-> 2, setup |-> 3,
                    start |-> 4, restart |-> 4])
        /\ effects # << >> => self.backend_contexts # << >> /\ ModelValidate(config).ok
        /\ Targets({"setup"}) # {} => self.todo = << >> /\ pc \in {"start_services", "done"}
        /\ Reconciled => AllSetUp

\* A configure cycle on two backends has created directories, written
\* their files, set both up and restarted the service
C15_Witness ==
    /\ Reconciled
    /\ Len(EnabledContexts) = 2
    /\ Targets({"mkdir"}) # {}
    /\ Cardinality(Written) >= 4
    /\ Cardinality(Targets({"setup"})) = 2
    /\ Restarted("cinder-volume")

\* Every directory the running hook declares exists
AllDirectoriesCreated ==
    \A i \in DOMAIN DeclaredDirectories(self.backend_contexts) :
        DeclaredDirectories(self.backend_contexts)[i].path \in DOMAIN dirs

\* The render pass of the running hook has processed every template
AllTemplatesProcessed ==
    /\ "cinder_backends" \in DOMAIN self.context
    /\ self.todo = << >>
    /\ \A i \in DOMAIN RenderItems(self.backend_contexts[1]) :
          DestFile(RenderItems(self.backend_contexts[1])[i].tpl) \in DOMAIN files

\* The render pass of the running hook ended at its top: assembling the
\* namespace raised, the exception was caught and no template was processed
RenderSkipped ==
    /\ self.caught # << >>
    /\ self.rendering = << >>
    /\ Written = {}

\* C16, as claimed: in a configure cycle a start or restart has been issued
\* only if all declared directories exist, every general and backend
\* template has been processed and every enabled backend's setup has run; a
\* cycle in which one of these steps failed has issued no start and no
\* restart.
C16_AsClaimed ==
    hook = "configure" =>
        /\ Targets({"start", "restart"}) # {} =>
              AllDirectoriesCreated /\ AllTemplatesProcessed /\ AllSetUp
        /\ outcome \in {"failed", "logged"} => Targets({"start", "restart"}) = {}

\* C16, amended: in a configure cycle a start or restart has been issued
\* only if all declared directories exist, the render pass has returned,
\* having processed every general and backend template or, when assembling
\* the namespace raised, none of them, and every enabled backend's setup has
\* run; a cycle in which creating a directory, processing a template or a
\* backend's setup failed has issued no start and no restart.
C16_ReconcileLast ==
    hook = "configure" =>
        /\ Targets({"start", "restart"}) # {} =>
              /\ AllDirectoriesCreated
              /\ AllTemplatesProcessed \/ RenderSkipped
              /\ AllSetUp
        /\ outcome \in {"failed", "logged"} => Targets({"start", "restart"}) = {}

\* A configure cycle whose namespace could not be assembled has set up its
\* two backends and started the service without processing a template
C16_Witness ==
    /\ Reconciled
    /\ RenderSkipped
    /\ Len(EnabledContexts) = 2
    /\ AllSetUp
    /\ Started("cinder-volume")

\* An exception raised by render_context, whatever it is, stays inside
\* template(): the pass writes no file and changes no mode, reports nothing
\* modified and returns to the hook, which goes on as after any pass.
RenderContextErrorSwallowed ==
    [][ pc = "template" =>
            /\ outcome' # "failed"
            /\ (GetConfig(config).raised # "" \/ self'.caught # << >>) =>
                  /\ self'.caught # << >>
                  /\ files' = files
                  /\ effects' = effects
                  /\ self'.modified = << >>
                  /\ self'.rendering = << >>
                  /\ pc' = (IF hook = "configure" THEN "setup" ELSE "done")
                  /\ outcome' \notin {"raised", "logged"} ]_vars

\* C20: whenever assembling the namespace raises (the path facts, the
\* sections of the configuration or the backend collection's view cannot be
\* had, so that no template is processed) the render pass writes no file,
\* reports nothing modified and returns to the hook, which goes on as after
\* any pass; no exception leaves template().
C20_AssemblyErrorSwallowed ==
    [][ (pc = "template" /\ pc' # "process") =>
            /\ files' = files
            /\ effects' = effects
            /\ self'.modified = << >>
            /\ pc' = (IF hook = "configure" THEN "setup" ELSE "done")
            /\ outcome' \notin {"raised", "failed", "logged"} ]_vars

\* The namespace template() assembles before its loops: the path facts, one
\* namespace per section of the configuration and the backends' summaries
BaseNamespace ==
    Update(RenderContext(config),
           [cinder_backends |-> CinderBackendsNamespace(self.backend_contexts[1])])

\* The namespace holds the backend's full context under some key
HoldsFullContext(context, ctx) ==
    \E k \in DOMAIN context : context[k] = Context(ctx)

\* C18: a backend's dedicated template is rendered with the namespace the
\* pass started with plus that backend's full context under its namespace
\* tag, and with no other backend's full context; a general template is
\* rendered with the starting namespace and no backend's full context; and
\* once a backend's templates are processed the namespace is again, key for
\* key and value for value, what it was before the backend was added.
C18_NamespaceIsolation ==
    /\ self.rendering # << >> =>
          LET r == self.rendering[1]
              others == { c \in Range(EnabledContexts) : r.ctx = << >> \/ c # r.ctx[1] }
          IN  /\ \A c \in others : ~HoldsFullContext(r.context, c)
              /\ IF r.ctx = << >>
                 THEN r.context = BaseNamespace
                 ELSE /\ r.ctx[1].namespace \notin DOMAIN BaseNamespace
                      /\ r.context = Update(BaseNamespace,
                                      [ns \in {r.ctx[1].namespace} |-> Context(r.ctx[1])])
    /\ (pc = "process" /\ (Head(self.todo).ctx = << >> \/ Head(self.todo).first))
          => self.context = BaseNamespace
    /\ (self.rendering # << >> /\ self.todo = << >>) => self.context = BaseNamespace

\* A Hitachi backend's fragment has just been rendered, after the two files
\* of a Ceph backend, and the pass has ended with the namespace restored
C18_Witness ==
    /\ self.rendering # << >> /\ self.todo = << >>
    /\ self.rendering[1].ctx # << >>
    /\ self.rendering[1].ctx[1].variant = "hitachi"
    /\ self.rendering[1].context["backend"] = Context(self.rendering[1].ctx[1])
    /\ \E c \in Range(EnabledContexts) : c.variant = "ceph"
    /\ "etc/ceph/a.conf" \in Written
    /\ "backend" \notin DOMAIN self.context /\ "ceph_ctx" \notin DOMAIN self.context

----------------------------------------------------------------------------
(* SpecDriver: the driver class the three protocol-driven providers derive *)
(* from one protocol value, each provider built directly from a settings   *)
(* bag (the providers themselves do not validate the bag).                 *)

\* Protocol values: every spelling the patterns admit, in both cases, and
\* two values no provider knows
Protocols == {"FC", "fc", "iSCSI", "iscsi", "NVMe", "nvme", "sas", "rdma"}

\* The provider classes that derive a driver class from the protocol
DriverProviders == {"hitachi", "pure", "dellsc"}

\* The provider of a family, built as backend_contexts would build it
Provider(variant, backend_name, backend_config) ==
    CASE variant = "hitachi" -> HitachiBackendContext(backend_name, backend_config)
      [] variant = "pure"    -> PureBackendContext(backend_name, backend_config)
      [] variant = "dellsc"  -> DellSCBackendContext(backend_name, backend_config)

\* The settings bag of a family with the protocol set
SettingsWithProtocol(variant, vbn, proto) ==
    CASE variant = "hitachi" -> HitachiConfiguration(vbn, "volumes", "ip1", proto)
      [] variant = "pure"    -> PureConfiguration(vbn, proto)
      [] variant = "dellsc"  -> DellSCConfiguration(vbn, proto)

InitDriver ==
    /\ HooksIdle
    /\ op = ""
    /\ ret = EmptyDict
    /\ arg \in [backend_name : BackendNames, protocol : Protocols]

\* <variant>BackendContext(name, bag).context()["driver_class"]
DriverClassOf(variant) ==
    /\ variant \notin DOMAIN ret
    /\ op' = variant
    /\ ret' = Update(ret,
                     [v \in {variant} |->
                        Context(Provider(variant, arg.backend_name,
                                         SettingsWithProtocol(variant, arg.backend_name,
                                                              arg.protocol))).driver_class])
    /\ UNCHANGED <<arg, hookVars>>

NextDriver == \E variant \in DriverProviders : DriverClassOf(variant)

SpecDriver == InitDriver /\ [][NextDriver]_vars

\* The protocol-to-driver table each provider's code spells out, keyed by
\* the lower-cased protocol
DriverTable(variant) ==
    CASE variant = "hitachi" ->
             [fc    |-> "cinder.volume.drivers.hitachi.hbsd_fc.HBSDFCDriver",
              iscsi |-> "cinder.volume.drivers.hitachi.hbsd_iscsi.HBSDISCSIDriver"]
      [] variant = "pure" ->
             [iscsi |-> "cinder.volume.drivers.pure.PureISCSIDriver",
              fc    |-> "cinder.volume.drivers.pure.PureFCDriver",
              nvme  |-> "cinder.volume.drivers.pure.PureNVMEDriver"]
      [] variant = "dellsc" ->
             [iscsi |-> "cinder.volume.drivers.dell_emc.sc.storagecenter_iscsi.SCISCSIDriver",
              fc    |-> "cinder.volume.drivers.dell_emc.sc.storagecenter_fc.SCFCDriver"]

\* The default of the family's protocol field, lower-cased
DefaultProtocol(variant) == "fc"

Recognised(variant, proto) == Lower(proto) \in DOMAIN DriverTable(variant)

\* What a provider did with the protocol: looked it up, fell back to the
\* default protocol's driver, or something else
Policy(variant) ==
    IF Recognised(variant, arg.protocol)
    THEN IF ret[variant] = DriverTable(variant)[Lower(arg.protocol)]
         THEN "table" ELSE "wrong"
    ELSE IF ret[variant] = DriverTable(variant)[DefaultProtocol(variant)]
         THEN "fallback" ELSE "other"

\* C23: a recognised protocol gets the driver class the table maps it to,
\* and the providers that do not recognise the protocol all treat it the
\* same way: all fail or all fall back to the default protocol's driver
\* (no provider of the code fails, so here: all fall back).
C23_UniformUnknownProtocolPolicy ==
    \A v \in DOMAIN ret :
        /\ Recognised(v, arg.protocol) => Policy(v) = "table"
        /\ ~Recognised(v, arg.protocol) => Policy(v) = "fallback"

----------------------------------------------------------------------------
(* The full context of every provider of a built collection (SpecConfig).  *)

\* C24: for every backend of the collection, whatever its type, the full
\* context handed to its dedicated template has no key with a null value:
\* every unset optional setting is absent and every set setting is present
\* with its value.
C24_FullContextHasNoNull ==
    Built =>
        \A i \in DOMAIN ret.object[1].contexts :
            LET ctx == ret.object[1].contexts[i].value
                full == Context(ctx)
            IN  /\ \A k \in DOMAIN full : full[k] # None
                /\ \A k \in DOMAIN ctx.backend_config :
                      ctx.backend_config[k] # None =>
                          k \in DOMAIN full /\ full[k] = ctx.backend_config[k]

\* C27: for every configuration that validates, the collection holds as
\* many contexts as there are configured Ceph backends plus configured
\* Hitachi backends, also when a Ceph and a Hitachi backend are configured
\* under the same map key with different volume-backend-names.
C27_NoBackendDropped ==
    Built /\ ModelValidate(arg).ok =>
        Len(ret.object[1].contexts) = Len(arg.ceph) + Len(arg.hitachi)

----------------------------------------------------------------------------
(* Properties of the hooks under faults (SpecFaults).                      *)

\* No directory of the search path holds a source of the template, under
\* its name or under its name with the .j2 suffix
MissingSource(tpl) ==
    \A d \in Range(TemplatesSearchPath(PackageTemplates)) :
        /\ << d, TemplateName(tpl) >> \notin sources
        /\ << d, TemplateName(tpl) \o ".j2" >> \notin sources

\* The templates of the running hook's render pass, in order
PassItems ==
    IF self.backend_contexts = << >> THEN << >>
    ELSE RenderItems(self.backend_contexts[1])

\* What the pass renders for one of its templates
ExpectedContent(item) ==
    Rendered(TemplateName(item.tpl),
             IF item.ctx = << >> THEN self.context
             ELSE Update(self.context,
                         [ns \in {item.ctx[1].namespace} |-> Context(item.ctx[1])]))

\* The render pass has come to a template that has no source
ReachedMissingSource ==
    self.rendering # << >> /\ MissingSource(self.rendering[1].tpl)

\* C21: once the render pass comes to a template whose source is found
\* under neither name, the hook ends with an error nothing catches, the
\* template's destination file is not written, the files the pass wrote for
\* the templates before it hold what the pass rendered, and no service has
\* been started or restarted.
C21_MissingSourceAborts ==
    ReachedMissingSource =>
        /\ pc = "done" /\ outcome = "failed"
        /\ self.raised = << "TemplateNotFound" >>
        /\ Targets({"start", "restart"}) = {}
        /\ DestFile(self.rendering[1].tpl) \notin Written
        /\ \A i \in 1 .. Len(PassItems) - Len(self.todo) :
              DestFile(PassItems[i].tpl) \in Written =>
                  /\ DestFile(PassItems[i].tpl) \in DOMAIN files
                  /\ files[DestFile(PassItems[i].tpl)].content = ExpectedContent(PassItems[i])

\* A configure cycle has written the general files and the Ceph backend's
\* files and has ended at the Hitachi backend's template, whose source is
\* missing
C21_Witness ==
    /\ ReachedMissingSource
    /\ hook = "configure" /\ pc = "done" /\ outcome = "failed"
    /\ {"etc/cinder/cinder.conf", "etc/ceph/a.conf", "etc/ceph/ceph.client.a.keyring"}
          \subseteq Written
    /\ "etc/cinder/cinder.conf.d/b.conf" \notin DOMAIN files
    /\ running["cinder-volume"] = "stopped"

\* The running hook's render pass has processed every template and the
\* hook has ended without an error
PassCompleted == pc = "done" /\ outcome = "ok" /\ AllTemplatesProcessed

\* C26: when a render pass has completed, also one that follows a pass
\* interrupted between writing a file and setting its mode, every Ceph
\* keyring on disk has mode 0o600.
C26_KeyringsOwnerOnly ==
    PassCompleted =>
        \A f \in DOMAIN files : DeclaredMode(f) = "0o600" => files[f].mode = "0o600"

\* C25: when a configure cycle has completed, whatever cycles came before
\* it (aborted ones included), every service of the supervisor is running
\* and has been started or restarted since the latest write to a file it
\* reads: none is left on stale configuration.
C25_NoStaleService ==
    Reconciled => \A name \in DOMAIN running : running[name] = "current"

----------------------------------------------------------------------------
(* The backends' dedicated files across configure cycles (Spec).           *)

\* A file under the backends' directories: a fragment under
\* etc/cinder/cinder.conf.d, or a conf or keyring file under etc/ceph
Dedicated(f) ==
    \E k \in Range(BackendKeys) :
        f \in { Join(CINDER_CONF_D, k \o ".conf"), Join(ETC_CEPH, k \o ".conf"),
                Join(ETC_CEPH, "ceph.client." \o k \o ".keyring") }

\* C28: when a configure cycle has completed, every dedicated file on disk
\* belongs to a backend of the cycle's collection: the files of a backend
\* removed from the configuration are gone.
C28_NoOrphanBackendFiles ==
    Reconciled /\ self.backend_contexts # << >> =>
        \A f \in DOMAIN files : Dedicated(f) => f \in DedicatedFiles

====
